---- MODULE Spec2Model ----
(***************************************************************************)
(* Model of parallel-surreal (src/src/main.rs): main splits the loaded     *)
(* dataset into cli.threads contiguous slices, spawns one tokio task per   *)
(* slice on a current_thread runtime, and every task opens its own         *)
(* connection and inserts its slice in chunks of cli.chunk_size.           *)
(*                                                                         *)
(* A step of a task is the code between two .await points; the reply of    *)
(* the sink to a connect or insert call (Ok or Err) is an input.           *)
(* The products thread * data.len() of get_slice stay far below 2^64 for   *)
(* the bounds used here, so usize arithmetic is plain integer arithmetic.  *)
(***************************************************************************)
EXTENDS Integers, Sequences, FiniteSets, TLC

\* Bounds of the model: dataset length, --threads, --chunk-size.
MaxLen == 5
MaxThreads == 3
MaxChunk == 2

\* Bounds of the slicing-only specification SliceSpec.
SliceMaxLen == 10
SliceMaxThreads == 4

\* Bounds of SparseSpec: few records for many threads.
SparseMaxLen == 1
SparseMaxThreads == 4

VARIABLES
    cli,          \* the parsed arguments that the core reads: threads,
                  \* chunk_size, table (<<>> for None, <<name>> for Some(name))
    json_data,    \* the dataset returned by load_data
    table,        \* the table name main settles on before the spawn loop
    tasks,        \* Vec of spawned tasks, in spawn order; tasks[i] is thread i
    joined,       \* number of task handles main has awaited to completion
    out,          \* the outcome lines printed so far (progress lines left out)
    exit_status   \* <<>> while main runs, then <<the process exit code>>

vars == <<cli, json_data, table, tasks, joined, out, exit_status>>

Min(a, b) == IF a <= b THEN a ELSE b

\* Record k of the input file: its id and the remaining fields (kept distinct
\* per record so that every record can be traced to the sink).
ArxivEntry(k) == [id |-> 100 + k, fields |-> k]

\* impl From<ArxivEntry> for ArxivEntry2: every field but the id.
From(entry) == [fields |-> entry.fields]

Dataset(len) == [k \in 1..len |-> ArxivEntry(k)]

\* get_slice: data[start..end] with floor division; a Rust range with
\* start > end or end > len panics.
SliceStart(len, thread, num_threads) == ((thread - 1) * len) \div num_threads

SliceEnd(len, thread, num_threads) == (thread * len) \div num_threads

SliceInRange(data, thread, num_threads) ==
    /\ SliceStart(Len(data), thread, num_threads) <= SliceEnd(Len(data), thread, num_threads)
    /\ SliceEnd(Len(data), thread, num_threads) <= Len(data)

\* Variant of get_slice: the end of the range is taken inclusive.
get_slice_inclusiveEnd(data, thread, num_threads) ==
    SubSeq(data, SliceStart(Len(data), thread, num_threads) + 1,
                 Min(SliceEnd(Len(data), thread, num_threads) + 1, Len(data)))

\* Variant of get_slice: the bounds are rounded up instead of down.
get_slice_ceil(data, thread, num_threads) ==
    SubSeq(data,
           ((thread - 1) * Len(data) + num_threads - 1) \div num_threads + 1,
           (thread * Len(data) + num_threads - 1) \div num_threads)

\* Variant of get_slice: equal slices of floor(len / num_threads) records, the
\* last slice takes the whole remainder.
get_slice_remainderToLast(data, thread, num_threads) ==
    SubSeq(data, (thread - 1) * (Len(data) \div num_threads) + 1,
                 IF thread = num_threads THEN Len(data)
                 ELSE thread * (Len(data) \div num_threads))

\* Variant of get_slice: every slice gets floor(len / num_threads) records.
get_slice_dropRemainder(data, thread, num_threads) ==
    SubSeq(data, (thread - 1) * (Len(data) \div num_threads) + 1,
                 thread * (Len(data) \div num_threads))

get_slice(data, thread, num_threads) ==
    SubSeq(data, SliceStart(Len(data), thread, num_threads) + 1,
                 SliceEnd(Len(data), thread, num_threads))

\* items.iter().map(|item| item.clone().into()).collect()
Convert(items) == [k \in 1..Len(items) |-> From(items[k])]

\* Variant of chunks: only the full chunks, as slice::chunks_exact yields them.
chunks_exact(v, chunk_size) ==
    [b \in 1..(Len(v) \div chunk_size) |->
        SubSeq(v, (b - 1) * chunk_size + 1, b * chunk_size)]

\* slice::chunks(chunk_size) for chunk_size > 0: repeatedly split off
\* min(len, chunk_size) elements until the slice is empty.
RECURSIVE chunks(_, _)
chunks(v, chunk_size) ==
    IF v = <<>> THEN <<>>
    ELSE LET sz == Min(Len(v), chunk_size)
         IN  <<SubSeq(v, 1, sz)>> \o chunks(SubSeq(v, sz + 1, Len(v)), chunk_size)

\* Task states.  Spawned: created, not polled yet.  ConnNew, ConnSignin,
\* ConnUse: suspended in one of the three awaits of build_connection.
\* Loading: suspended in an insert.  Completed: insert_items returned Ok.
\* Failed: insert_items returned Err.  Panicked: the task panicked (an unwrap
\* in build_connection, or chunks(0)); its JoinHandle yields a JoinError.
Connecting == {"ConnNew", "ConnSignin", "ConnUse"}

FailedStates == {"Failed", "Panicked"}

Terminal == {"Completed"} \cup FailedStates

Threads == 1..Len(tasks)

\* Chunk numbers (1-based) of the insert calls of thread w that have not returned.
InFlight(w) ==
    {n \in 1..Len(tasks[w].sent) :
        \A r \in 1..Len(tasks[w].replies) : tasks[w].replies[r].chunk # n}

\* The values generate_random_string can return (two of the 26^5).
RandomStrings == {"qwert", "asdfg"}

\* The values of --table: absent, or a name.
TableArgs == {<<>>, <<"papers">>}

\* let table = if cli.table.is_some() { cli.table.clone().unwrap() } else { table }
TableName(c, random) == IF c.table # <<>> THEN c.table[1] ELSE random

Init ==
    /\ cli \in [threads : 0..MaxThreads, chunk_size : 0..MaxChunk, table : TableArgs]
    /\ json_data \in {Dataset(len) : len \in 0..MaxLen}
    /\ \E random \in RandomStrings : table = TableName(cli, random)
    /\ tasks = <<>>
    /\ joined = 0
    /\ out = <<>>
    /\ exit_status = <<>>

\* The task spawned for thread i: it owns its slice and a clone of the table
\* name.  conns counts its build_connection calls, db is the connection it
\* holds (0: none, else the thread that opened it), calls lists the table and
\* the connection of every insert call (sent lists their chunks), cause is
\* what ended it abnormally ("none", "connect", "chunks0", "insert").
NewTask(i, tbl) ==
    [state |-> "Spawned",
     items |-> get_slice(json_data, i, cli.threads),
     table |-> tbl,
     conns |-> 0,
     db |-> 0,
     cause |-> "none",
     sent |-> <<>>,
     calls |-> <<>>,
     replies |-> <<>>]

\* Variant of Spawn: the table name is settled inside the loop, once per task.
Spawn_tablePerTask ==
    /\ exit_status = <<>>
    /\ Len(tasks) < cli.threads
    /\ \E random \in RandomStrings :
          tasks' = Append(tasks, NewTask(Len(tasks) + 1, TableName(cli, random)))
    /\ UNCHANGED <<cli, json_data, table, joined, out, exit_status>>

\* One iteration of `for i in 1..=cli.threads`: slice the data, spawn the task.
Spawn ==
    /\ exit_status = <<>>
    /\ Len(tasks) < cli.threads
    /\ LET i == Len(tasks) + 1
       IN  IF SliceInRange(json_data, i, cli.threads)
           THEN /\ tasks' = Append(tasks, NewTask(i, table))
                /\ UNCHANGED exit_status
           ELSE /\ exit_status' = <<101>>
                /\ UNCHANGED tasks
    /\ UNCHANGED <<cli, json_data, table, joined, out>>

\* main is suspended in task.await: on the current_thread runtime the spawned
\* tasks are polled only then, that is after the whole spawn loop.
MainAwaiting ==
    /\ exit_status = <<>>
    /\ Len(tasks) = cli.threads
    /\ joined < Len(tasks)

\* Variant of IssueNext: the inserts of all chunks that are left are started
\* together instead of one after the other.
IssueNext_allAtOnce(t, chunk_size) ==
    LET all == chunks(Convert(t.items), chunk_size)
        n == Len(t.sent)
    IN  IF n < Len(all)
        THEN [t EXCEPT !.state = "Loading",
                       !.sent = t.sent \o SubSeq(all, n + 1, Len(all)),
                       !.calls = t.calls \o
                           [b \in 1..(Len(all) - n) |-> [table |-> t.table, db |-> t.db]]]
        ELSE [t EXCEPT !.state = "Completed"]

\* Variant of IssueNext: the loop is left after the first chunk.
IssueNext_stopAfterFirst(t, chunk_size) ==
    LET all == chunks(Convert(t.items), chunk_size)
        n == Len(t.sent)
    IN  IF n < Len(all) /\ n = 0
        THEN [t EXCEPT !.state = "Loading",
                       !.sent = Append(t.sent, all[n + 1]),
                       !.calls = Append(t.calls, [table |-> t.table, db |-> t.db])]
        ELSE [t EXCEPT !.state = "Completed"]

\* The insert call for the next chunk, if any is left; else insert_items
\* falls out of the loop and returns Ok.
IssueNext(t, chunk_size) ==
    LET all == chunks(Convert(t.items), chunk_size)
        n == Len(t.sent)
    IN  IF n < Len(all)
        THEN [t EXCEPT !.state = "Loading",
                       !.sent = Append(t.sent, all[n + 1]),
                       !.calls = Append(t.calls, [table |-> t.table, db |-> t.db])]
        ELSE [t EXCEPT !.state = "Completed"]

\* The outcome lines task w prints on reaching state t.state: "Thread w: Done"
\* for Ok; "Thread w: Failed insertion on chunk n: e" and then "Thread w: Failed
\* to insert items: e" for Err.  A panicking task prints none of them (the
\* panic hook writes the panic message, which holds the cause kept in t.cause
\* and no thread number; it is not a line of this program and not in out).
Outcome(w, t) ==
    IF t.state = "Completed" THEN <<[kind |-> "Done", thread |-> w]>>
    ELSE IF t.state = "Failed"
    THEN <<[kind |-> "FailedChunk", thread |-> w,
            chunk |-> t.replies[Len(t.replies)].chunk],
           [kind |-> "FailedItems", thread |-> w]>>
    ELSE <<>>

\* Variant of Start: a task with an empty slice panics (its first item is
\* read before the slice is found empty).
Start_emptyPanics(w) ==
    /\ MainAwaiting
    /\ tasks[w].state = "Spawned"
    /\ tasks' = [tasks EXCEPT ![w] =
            IF @.items = <<>>
            THEN [@ EXCEPT !.state = "Panicked", !.cause = "index"]
            ELSE [@ EXCEPT !.state = "ConnNew", !.conns = @ + 1]]
    /\ out' = out \o Outcome(w, tasks'[w])
    /\ UNCHANGED <<cli, json_data, table, joined, exit_status>>

\* Variant of Start: the connection is built before the slice is looked at.
Start_connectFirst(w) ==
    /\ MainAwaiting
    /\ tasks[w].state = "Spawned"
    /\ tasks' = [tasks EXCEPT ![w] = [@ EXCEPT !.state = "ConnNew", !.conns = @ + 1]]
    /\ out' = out \o Outcome(w, tasks'[w])
    /\ UNCHANGED <<cli, json_data, table, joined, exit_status>>

\* First poll of task w: insert_items up to its first await.
Start(w) ==
    /\ MainAwaiting
    /\ tasks[w].state = "Spawned"
    /\ tasks' = [tasks EXCEPT ![w] =
            IF @.items = <<>>
            THEN [@ EXCEPT !.state = "Completed"]
            ELSE [@ EXCEPT !.state = "ConnNew", !.conns = @ + 1]]
    /\ out' = out \o Outcome(w, tasks'[w])
    /\ UNCHANGED <<cli, json_data, table, joined, exit_status>>

\* Variant of Connect: a failed connection ends the process with status 1
\* (std::process::exit in build_connection) instead of panicking in the task.
Connect_exitProcess(w, ok) ==
    /\ MainAwaiting
    /\ tasks[w].state \in Connecting
    /\ tasks' = [tasks EXCEPT ![w] =
            IF ~ok THEN [@ EXCEPT !.state = "Panicked", !.cause = "connect"]
            ELSE IF @.state = "ConnNew"
            THEN [@ EXCEPT !.state = "ConnSignin", !.db = w]
            ELSE IF @.state = "ConnSignin" THEN [@ EXCEPT !.state = "ConnUse"]
            ELSE IF cli.chunk_size = 0
            THEN [@ EXCEPT !.state = "Panicked", !.cause = "chunks0"]
            ELSE IssueNext(@, cli.chunk_size)]
    /\ out' = out \o Outcome(w, tasks'[w])
    /\ exit_status' = IF ok THEN exit_status ELSE <<1>>
    /\ UNCHANGED <<cli, json_data, table, joined>>

\* Variant of Connect: the client is a lazily created shared one; a task takes
\* the connection another task opened when there is one.
Connect_sharedClient(w, ok) ==
    /\ MainAwaiting
    /\ tasks[w].state \in Connecting
    /\ tasks' = [tasks EXCEPT ![w] =
            IF ~ok THEN [@ EXCEPT !.state = "Panicked", !.cause = "connect"]
            ELSE IF @.state = "ConnNew"
            THEN [@ EXCEPT !.state = "ConnSignin",
                           !.db = IF \E v \in Threads : tasks[v].db # 0
                                  THEN CHOOSE d \in Threads :
                                          \E v \in Threads : tasks[v].db = d
                                  ELSE w]
            ELSE IF @.state = "ConnSignin" THEN [@ EXCEPT !.state = "ConnUse"]
            ELSE IF cli.chunk_size = 0
            THEN [@ EXCEPT !.state = "Panicked", !.cause = "chunks0"]
            ELSE IssueNext(@, cli.chunk_size)]
    /\ out' = out \o Outcome(w, tasks'[w])
    /\ UNCHANGED <<cli, json_data, table, joined, exit_status>>

\* An await of build_connection returns; every one of them is unwrapped.
\* After the last one the chunk loop starts: chunks(0) panics.
Connect(w, ok) ==
    /\ MainAwaiting
    /\ tasks[w].state \in Connecting
    /\ tasks' = [tasks EXCEPT ![w] =
            IF ~ok THEN [@ EXCEPT !.state = "Panicked", !.cause = "connect"]
            ELSE IF @.state = "ConnNew"
            THEN [@ EXCEPT !.state = "ConnSignin", !.db = w]
            ELSE IF @.state = "ConnSignin" THEN [@ EXCEPT !.state = "ConnUse"]
            ELSE IF cli.chunk_size = 0
            THEN [@ EXCEPT !.state = "Panicked", !.cause = "chunks0"]
            ELSE IssueNext(@, cli.chunk_size)]
    /\ out' = out \o Outcome(w, tasks'[w])
    /\ UNCHANGED <<cli, json_data, table, joined, exit_status>>

\* Variant of OnReply: an Err reply is logged and the loop goes on.
OnReply_continue(t, n, ok, chunk_size) ==
    IssueNext([t EXCEPT !.replies = Append(t.replies, [chunk |-> n, ok |-> ok])],
              chunk_size)

\* The reply to insert call n of task t: Err returns from insert_items,
\* Ok goes on with the next chunk.
OnReply(t, n, ok, chunk_size) ==
    LET u == [t EXCEPT !.replies = Append(t.replies, [chunk |-> n, ok |-> ok])]
    IN  IF ok THEN IssueNext(u, chunk_size)
        ELSE [u EXCEPT !.state = "Failed", !.cause = "insert"]

\* Variant of WriteReturn: a failed insert also aborts the sibling tasks.
WriteReturn_abortSiblings(w, ok) ==
    /\ MainAwaiting
    /\ tasks[w].state = "Loading"
    /\ \E n \in InFlight(w) :
          tasks' = [v \in Threads |->
                      IF v = w THEN OnReply(tasks[w], n, ok, cli.chunk_size)
                      ELSE IF ~ok /\ tasks[v].state \notin Terminal
                      THEN [tasks[v] EXCEPT !.state = "Panicked", !.cause = "aborted"]
                      ELSE tasks[v]]
    /\ out' = out \o Outcome(w, tasks'[w])
    /\ UNCHANGED <<cli, json_data, table, joined, exit_status>>

WriteReturn(w, ok) ==
    /\ MainAwaiting
    /\ tasks[w].state = "Loading"
    /\ \E n \in InFlight(w) :
          tasks' = [tasks EXCEPT ![w] = OnReply(@, n, ok, cli.chunk_size)]
    /\ out' = out \o Outcome(w, tasks'[w])
    /\ UNCHANGED <<cli, json_data, table, joined, exit_status>>

\* Variant of JoinReady: main does not wait for the task.
JoinReady_noWait(t) == TRUE

\* Variant of JoinReady: main waits for the task to succeed.
JoinReady_onlyOk(t) == t.state = "Completed"

\* What main waits for in task.await.
JoinReady(t) == t.state \in Terminal

\* task.await of the next handle returns (Ok, or a JoinError that is printed).
Join ==
    /\ MainAwaiting
    /\ JoinReady(tasks[joined + 1])
    /\ joined' = joined + 1
    /\ out' = IF tasks[joined + 1].state = "Panicked"
              THEN Append(out, [kind |-> "TaskFailed"])
              ELSE out
    /\ UNCHANGED <<cli, json_data, table, tasks, exit_status>>

\* println!("Goodbye, world!"); Ok(())
Finish ==
    /\ exit_status = <<>>
    /\ Len(tasks) = cli.threads
    /\ joined = Len(tasks)
    /\ out' = Append(out, [kind |-> "Goodbye"])
    /\ exit_status' = <<0>>
    /\ UNCHANGED <<cli, json_data, table, tasks, joined>>

Next ==
    \/ Spawn
    \/ \E w \in Threads : Start(w)
    \/ \E w \in Threads, ok \in BOOLEAN : Connect(w, ok)
    \/ \E w \in Threads, ok \in BOOLEAN : WriteReturn(w, ok)
    \/ Join
    \/ Finish

Spec == Init /\ [][Next]_vars

\* The slicing of main alone: the spawn loop over larger datasets and thread
\* counts, no task is polled.
SliceInit ==
    /\ cli \in [threads : 1..SliceMaxThreads, chunk_size : {1}, table : {<<>>}]
    /\ json_data \in {Dataset(len) : len \in 0..SliceMaxLen}
    /\ \E random \in RandomStrings : table = TableName(cli, random)
    /\ tasks = <<>>
    /\ joined = 0
    /\ out = <<>>
    /\ exit_status = <<>>

SliceNext == Spawn

SliceSpec == SliceInit /\ [][SliceNext]_vars

\* Whole runs with more threads than records, so that slices are empty.
SparseInit ==
    /\ cli \in [threads : 0..SparseMaxThreads, chunk_size : 0..1, table : {<<>>}]
    /\ json_data \in {Dataset(len) : len \in 0..SparseMaxLen}
    /\ \E random \in RandomStrings : table = TableName(cli, random)
    /\ tasks = <<>>
    /\ joined = 0
    /\ out = <<>>
    /\ exit_status = <<>>

SparseSpec == SparseInit /\ [][Next]_vars

\* A step of task w.
WorkerStep(w) ==
    /\ w \in Threads
    /\ \/ Start(w)
       \/ \E ok \in BOOLEAN : Connect(w, ok)
       \/ \E ok \in BOOLEAN : WriteReturn(w, ok)

\* Every connect and insert call returns, and the runtime polls every task
\* that is ready and main when the handle it awaits is ready.
Fairness ==
    /\ WF_vars(Spawn)
    /\ WF_vars(Join)
    /\ WF_vars(Finish)
    /\ \A w \in 1..MaxThreads : WF_vars(WorkerStep(w))

FairSpec == Spec /\ Fairness

----------------------------------------------------------------------------
\* Helpers of the properties.

RECURSIVE Flatten(_)
Flatten(ss) == IF ss = <<>> THEN <<>> ELSE Head(ss) \o Flatten(Tail(ss))

IsPrefix(a, b) == Len(a) <= Len(b) /\ a = SubSeq(b, 1, Len(a))

AllSpawned == Len(tasks) = cli.threads

\* The records of the slices of threads 1..n, in thread order.
SlicesUpTo(n) == Flatten([i \in 1..n |-> tasks[i].items])

Finished == exit_status = <<0>>

\* Position in out of the first line equal to l, 0 if there is none.
LineAt(l) ==
    IF \E p \in 1..Len(out) : out[p] = l
    THEN CHOOSE p \in 1..Len(out) : out[p] = l /\ \A q \in 1..(p - 1) : out[q] # l
    ELSE 0

----------------------------------------------------------------------------
\* C1: for every dataset length and threads >= 1, the slices main obtains from
\* get_slice for i = 1..threads are contiguous, pairwise disjoint and ordered,
\* and concatenated in order of i they are the dataset: every record index
\* belongs to exactly one slice and the record order is kept.
C1_SlicesPartitionDataset ==
    /\ \A i \in Threads :
          tasks[i].items = SubSeq(json_data, Len(SlicesUpTo(i - 1)) + 1,
                                             Len(SlicesUpTo(i)))
    /\ (AllSpawned /\ cli.threads >= 1) =>
          /\ SlicesUpTo(cli.threads) = json_data
          /\ \A k \in 1..Len(json_data) :
                Cardinality({i \in Threads :
                    \E p \in 1..Len(tasks[i].items) :
                        tasks[i].items[p] = json_data[k]}) = 1

C1_Witness ==
    /\ AllSpawned
    /\ cli.threads = 3
    /\ Len(json_data) = 5
    /\ Len(tasks[1].items) = 1
    /\ Len(tasks[2].items) = 2
    /\ Len(tasks[3].items) = 2

\* C2: if the n-th insert of a task fails, the task has had exactly n-1
\* successful inserts before it (the first n-1 chunks of its slice), has issued
\* no insert after the n-th, and ends Failed.
C2_FailFastWithinTask ==
    \A w \in Threads :
        LET t == tasks[w]
        IN  \A n \in 1..Len(t.replies) :
              ~t.replies[n].ok =>
                /\ t.state = "Failed"
                /\ n = Len(t.replies)
                /\ Len(t.sent) = n
                /\ \A q \in 1..n : t.replies[q].chunk = q
                /\ \A q \in 1..(n - 1) : t.replies[q].ok
                /\ Flatten(SubSeq(t.sent, 1, n - 1)) =
                       SubSeq(Convert(t.items), 1, (n - 1) * cli.chunk_size)

\* Scenario C scaled down: 5 records, chunk_size 2, the second insert fails:
\* the first 2 records are written, the 1-record remainder is never sent.
C2_Witness ==
    /\ Finished
    /\ cli.chunk_size = 2
    /\ \E w \in Threads :
          /\ Len(tasks[w].items) = 5
          /\ tasks[w].state = "Failed"
          /\ Len(tasks[w].replies) = 2
          /\ ~tasks[w].replies[2].ok
          /\ Len(tasks[w].sent) = 2

\* C3: a failure of one task never stops, cancels or changes a sibling: a
\* step in which a task fails leaves every other task as it was, a task that
\* has not ended can always take its next step whatever its siblings' states
\* are, and a task that ended did so on its own replies (Failed: its own last
\* insert failed; Completed: all chunks of its own slice were sent and
\* acknowledged).
C3_OwnOutcome(t) ==
    /\ t.state = "Failed" =>
          Len(t.replies) > 0 /\ ~t.replies[Len(t.replies)].ok
    /\ t.state = "Completed" =>
          /\ Flatten(t.sent) = Convert(t.items)
          /\ Len(t.replies) = Len(t.sent)
          /\ \A r \in 1..Len(t.replies) : t.replies[r].ok

C3_FailureIsolated ==
    /\ [](\A v \in Threads :
            /\ C3_OwnOutcome(tasks[v])
            /\ (MainAwaiting /\ tasks[v].state \notin Terminal)
                  => ENABLED WorkerStep(v))
    /\ [][\A w \in Threads :
            (tasks[w].state \notin FailedStates /\ tasks'[w].state \in FailedStates)
                => \A v \in Threads \ {w} : tasks'[v] = tasks[v]]_vars

\* A task with a non-empty slice reports Done after a sibling reported failure.
C3_Witness ==
    \E w \in Threads, v \in Threads :
        /\ w # v
        /\ tasks[v].items # <<>>
        /\ LineAt([kind |-> "FailedItems", thread |-> w]) > 0
        /\ LineAt([kind |-> "Done", thread |-> v]) >
               LineAt([kind |-> "FailedItems", thread |-> w])

\* C4: the exit status is non-zero whenever a task ended Failed, and zero
\* only when all tasks ended Completed.
C4_ExitStatusReflectsFailure ==
    exit_status # <<>> =>
        (exit_status = <<0>> <=>
            (AllSpawned /\ \A w \in Threads : tasks[w].state = "Completed"))

\* C5: a run with threads = 0 is rejected before any task is spawned and any
\* connection is attempted, and does not end as a successful run.
C5_ZeroThreadsRejected ==
    cli.threads = 0 =>
        /\ tasks = <<>>
        /\ exit_status # <<0>>

\* C6: a run with chunk_size = 0 is rejected before any task starts: no task
\* is spawned and no connection is opened.
C6_ZeroChunkSizeRejected ==
    cli.chunk_size = 0 =>
        /\ tasks = <<>>
        /\ \A w \in Threads : tasks[w].conns = 0

\* ceil(n / d) for d > 0.
CeilDiv(n, d) == (n + d - 1) \div d

\* C7: for chunk_size > 0 the chunks a task sends are, in order, consecutive
\* sub-slices of its slice; none is empty, all but possibly the last have
\* chunk_size records; a task that got through its slice has sent
\* ceil(n / chunk_size) chunks whose concatenation is the slice, the last one
\* of n mod chunk_size records when that is not zero, of chunk_size otherwise.
C7_ChunksCoverSlice ==
    \A w \in Threads :
        LET t == tasks[w]
            n == Len(t.items)
            c == cli.chunk_size
            m == Len(t.sent)
        IN  /\ IsPrefix(Flatten(t.sent), Convert(t.items))
            /\ \A b \in 1..m : Len(t.sent[b]) > 0
            /\ \A b \in 1..(m - 1) : Len(t.sent[b]) = c
            /\ (t.state = "Completed" /\ c > 0) =>
                  /\ Flatten(t.sent) = Convert(t.items)
                  /\ m = CeilDiv(n, c)
                  /\ n > 0 => Len(t.sent[m]) = (IF n % c # 0 THEN n % c ELSE c)

C7_Witness ==
    \E w \in Threads :
        /\ tasks[w].state = "Completed"
        /\ Len(tasks[w].items) = 5
        /\ cli.chunk_size = 2
        /\ Len(tasks[w].sent) = 3
        /\ Len(tasks[w].sent[3]) = 1

\* C8: a task writes its chunks strictly in order: insert n is issued only
\* after insert n-1 has returned Ok, replies come back in issue order, and a
\* task never has more than one insert in flight.
C8_OneWriteAtATime ==
    \A w \in Threads :
        LET t == tasks[w]
        IN  /\ Cardinality(InFlight(w)) <= 1
            /\ Len(t.replies) <= Len(t.sent)
            /\ \A r \in 1..Len(t.replies) : t.replies[r].chunk = r
            /\ \A n \in 2..Len(t.sent) :
                  /\ Len(t.replies) >= n - 1
                  /\ t.replies[n - 1].ok
            /\ \A n \in 1..Len(t.sent) :
                  t.sent[n] = SubSeq(Convert(t.items), (n - 1) * cli.chunk_size + 1,
                                     Min(n * cli.chunk_size, Len(t.items)))

\* Two tasks are each in their second insert at the same time.
C8_Witness ==
    \E w \in Threads, v \in Threads :
        /\ w # v
        /\ InFlight(w) = {2}
        /\ InFlight(v) = {2}

\* C9: main prints its last line and returns only after every one of the
\* cli.threads tasks has been spawned and has ended (Completed, Failed or
\* Panicked); the last line follows every outcome line.
C9_FinishAfterAllTasks ==
    (Finished \/ \E p \in 1..Len(out) : out[p] = [kind |-> "Goodbye"]) =>
        /\ AllSpawned
        /\ joined = cli.threads
        /\ \A w \in Threads : tasks[w].state \in Terminal
        /\ out[Len(out)] = [kind |-> "Goodbye"]

C9_Witness ==
    /\ Finished
    /\ cli.threads = 3
    /\ \E w \in Threads : tasks[w].state = "Completed" /\ Len(tasks[w].sent) = 2
    /\ \E w \in Threads : tasks[w].state = "Failed"
    /\ \E w \in Threads : tasks[w].state = "Panicked"

\* C10: when every connect and insert call returns and the tasks are polled
\* fairly, every task ends and main returns.
C10_Terminates ==
    <>(/\ exit_status # <<>>
       /\ AllSpawned
       /\ \A w \in Threads : tasks[w].state \in Terminal)

C10_Witness ==
    /\ Finished
    /\ cli.threads = 3
    /\ Len(json_data) = 5
    /\ \A w \in Threads : tasks[w].state \in Terminal
    /\ \E w \in Threads : tasks[w].state = "Failed" /\ Len(tasks[w].replies) = 2

\* C11: the table name is fixed before any task is spawned (the --table
\* argument when given, else one generated string) and every insert call of
\* every task of the run names that same table.
C11_OneDestination ==
    /\ table = TableName(cli, table)
    /\ cli.table = <<>> => table \in RandomStrings
    /\ \A w \in Threads :
          /\ tasks[w].table = table
          /\ \A n \in 1..Len(tasks[w].calls) : tasks[w].calls[n].table = table

\* Without --table, two tasks have both issued inserts and main has returned.
C11_Witness ==
    /\ Finished
    /\ cli.table = <<>>
    /\ \E w \in Threads, v \in Threads :
          /\ w # v
          /\ Len(tasks[w].calls) >= 2
          /\ Len(tasks[v].calls) >= 1

\* C12: a task whose connection step fails ends in a failed state having
\* issued no insert call, and the failure stays in the task: the step changes
\* no sibling and does not end main, main can still join the task, and every
\* sibling that has not ended can still take its next step.
C12_ConnectFailureConfined ==
    /\ [](\A w \in Threads :
            /\ tasks[w].cause = "connect" =>
                  /\ tasks[w].state = "Panicked"
                  /\ tasks[w].sent = <<>>
                  /\ tasks[w].calls = <<>>
                  /\ tasks[w].replies = <<>>
                  /\ (MainAwaiting /\ joined + 1 = w) => ENABLED Join
                  /\ \A v \in Threads \ {w} :
                        (MainAwaiting /\ tasks[v].state \notin Terminal)
                            => ENABLED WorkerStep(v)
            /\ (Finished /\ tasks[w].cause = "connect") => joined >= w)
    /\ [][\A w \in Threads :
            (tasks[w].cause # "connect" /\ tasks'[w].cause = "connect") =>
                /\ \A v \in Threads \ {w} : tasks'[v] = tasks[v]
                /\ exit_status' = exit_status
                /\ joined' = joined]_vars

\* One task failed to connect and was joined, a sibling completed its
\* non-empty slice and a third one failed in an insert.
C12_Witness ==
    /\ Finished
    /\ joined = 3
    /\ \E w \in Threads : tasks[w].cause = "connect"
    /\ \E v \in Threads : tasks[v].state = "Completed" /\ tasks[v].items # <<>>
    /\ \E u \in Threads : tasks[u].cause = "insert"

\* Line l names thread w.
NamesThread(l, w) == "thread" \in DOMAIN l /\ l.thread = w

\* out holds a success line for thread w.
ReportsSuccess(w) ==
    \E p \in 1..Len(out) : out[p] = [kind |-> "Done", thread |-> w]

\* out holds a failure line that names thread w and, when an insert failed,
\* the 1-based number of the failed chunk.
ReportsFailure(w) ==
    \E p \in 1..Len(out) :
        /\ NamesThread(out[p], w)
        /\ out[p].kind # "Done"
        /\ tasks[w].cause = "insert" =>
              /\ out[p].kind = "FailedChunk"
              /\ ~tasks[w].replies[out[p].chunk].ok

\* C13: when main has returned, every task's outcome has been reported: for
\* each thread there is a success line for it, or a failure line that names it
\* (and the failed chunk), for insert failures and connection failures alike.
C13_EveryOutcomeReported ==
    Finished =>
        \A w \in Threads :
            /\ tasks[w].state = "Completed" => ReportsSuccess(w)
            /\ tasks[w].state \in FailedStates => ReportsFailure(w)

\* The records of the insert calls of task t that returned Ok.
Written(t) ==
    Flatten([r \in 1..Len(t.replies) |->
                IF t.replies[r].ok THEN t.sent[t.replies[r].chunk] ELSE <<>>])

\* C14: a task is Completed, and reports success, only if every chunk of its
\* slice was written successfully, so that it has written as many records as
\* its slice holds; a task that had an insert fail never reports success.
C14_CompletedMeansAllWritten ==
    \A w \in Threads :
        LET t == tasks[w]
        IN  /\ ReportsSuccess(w) <=> t.state = "Completed"
            /\ t.state = "Completed" =>
                  /\ Len(t.replies) = Len(t.sent)
                  /\ \A r \in 1..Len(t.replies) : t.replies[r].ok
                  /\ Written(t) = Convert(t.items)
                  /\ Len(Written(t)) = Len(t.items)
            /\ (\E r \in 1..Len(t.replies) : ~t.replies[r].ok) =>
                  /\ t.state # "Completed"
                  /\ ~ReportsSuccess(w)

\* Two tasks completed slices of 2 and 3 records in chunks of 2.
C14_Witness ==
    /\ Finished
    /\ cli.threads = 2
    /\ cli.chunk_size = 2
    /\ Len(json_data) = 5
    /\ \A w \in Threads : tasks[w].state = "Completed" /\ ReportsSuccess(w)
    /\ Len(Written(tasks[2])) = 3

\* floor(n / d) for n >= 0 and d > 0, by its defining inequalities.
FloorDiv(n, d) == CHOOSE q \in 0..n : q * d <= n /\ n < (q + 1) * d

SliceSize(i) == Len(tasks[i].items)

\* C15: for threads >= 1 the slice of thread i holds exactly the records at
\* the 0-based indices [floor((i-1)*L/K), floor(i*L/K)), with
\* start <= end <= L; for L = 10 and K = 3 the slices are [0,3), [3,6),
\* [6,10); with L < K some slices are empty.
C15_SliceIsFloorRange ==
    LET L == Len(json_data)
        K == cli.threads
    IN  /\ exit_status = <<>>
        /\ \A i \in Threads :
              LET start == FloorDiv((i - 1) * L, K)
                  end == FloorDiv(i * L, K)
              IN  /\ start <= end
                  /\ end <= L
                  /\ SliceInRange(json_data, i, K)
                  /\ SliceSize(i) = end - start
                  /\ \A p \in 1..SliceSize(i) : tasks[i].items[p] = json_data[start + p]
        /\ (AllSpawned /\ L = 10 /\ K = 3) =>
              /\ tasks[1].items = SubSeq(json_data, 1, 3)
              /\ tasks[2].items = SubSeq(json_data, 4, 6)
              /\ tasks[3].items = SubSeq(json_data, 7, 10)
        /\ (AllSpawned /\ L < K) => \E i \in Threads : tasks[i].items = <<>>

\* Scenario A: 10 records, 3 threads, slices of 3, 3 and 4 records.
C15_Witness ==
    /\ AllSpawned
    /\ Len(json_data) = 10
    /\ cli.threads = 3
    /\ SliceSize(1) = 3
    /\ SliceSize(2) = 3
    /\ SliceSize(3) = 4

\* C16 as claimed: any two slice sizes differ by at most 1 and the sizes are
\* non-decreasing in the thread number (the larger slices are the last ones).
C16_SizesNonDecreasing ==
    AllSpawned =>
        \A i \in Threads, j \in Threads :
            /\ SliceSize(i) - SliceSize(j) <= 1
            /\ i < j => SliceSize(i) <= SliceSize(j)

\* C16 as amended: every slice has floor(L/K) or floor(L/K) + 1 records (so
\* any two sizes differ by at most 1), exactly L mod K slices have the larger
\* size, the last slice is a largest one and the first a smallest one.
C16_SizesBalanced ==
    LET L == Len(json_data)
        K == cli.threads
    IN  (AllSpawned /\ K >= 1) =>
          /\ \A i \in Threads : SliceSize(i) \in {FloorDiv(L, K), FloorDiv(L, K) + 1}
          /\ \A i \in Threads, j \in Threads : SliceSize(i) - SliceSize(j) <= 1
          /\ Cardinality({i \in Threads : SliceSize(i) = FloorDiv(L, K) + 1}) = L % K
          /\ \A i \in Threads : SliceSize(i) <= SliceSize(K)
          /\ \A i \in Threads : SliceSize(1) <= SliceSize(i)

\* 6 records, 4 threads: sizes 1, 2, 1, 2, a larger slice before a smaller one.
C16_Witness ==
    /\ AllSpawned
    /\ Len(json_data) = 6
    /\ cli.threads = 4
    /\ SliceSize(1) = 1
    /\ SliceSize(2) = 2
    /\ SliceSize(3) = 1
    /\ SliceSize(4) = 2

\* C17: a task whose slice is empty ends Completed with no insert call issued
\* and reports success; with an empty dataset and 4 threads all four slices
\* are empty and all four tasks end Completed with 0 records written.
C17_EmptySliceCompletes ==
    /\ \A w \in Threads :
          tasks[w].items = <<>> =>
            /\ tasks[w].state \in {"Spawned", "Completed"}
            /\ tasks[w].sent = <<>>
            /\ tasks[w].calls = <<>>
            /\ Finished => (tasks[w].state = "Completed" /\ ReportsSuccess(w))
    /\ (Finished /\ Len(json_data) = 0 /\ cli.threads = 4) =>
          /\ Len(tasks) = 4
          /\ \A w \in Threads :
                /\ tasks[w].items = <<>>
                /\ tasks[w].state = "Completed"
                /\ Len(Written(tasks[w])) = 0

\* Scenario B: no record, 4 threads, main has returned.
C17_Witness ==
    /\ Finished
    /\ Len(json_data) = 0
    /\ cli.threads = 4
    /\ \A w \in 1..4 : tasks[w].state = "Completed" /\ ReportsSuccess(w)

\* C20: a task whose slice is empty goes from Spawned straight to Completed:
\* it never is in a connecting state, calls build_connection not once and
\* holds no connection.
C20_EmptySliceNeverConnects ==
    \A w \in Threads :
        tasks[w].items = <<>> =>
            /\ tasks[w].state \in {"Spawned", "Completed"}
            /\ tasks[w].conns = 0
            /\ tasks[w].db = 0

\* The sink is unreachable: every task with records failed in Surreal::new,
\* and a task with an empty slice reported success all the same.
C20_Witness ==
    /\ Finished
    /\ \E w \in Threads : tasks[w].items = <<>> /\ ReportsSuccess(w)
    /\ \E v \in Threads : tasks[v].items # <<>>
    /\ \A v \in Threads :
          tasks[v].items # <<>> => (tasks[v].cause = "connect" /\ tasks[v].db = 0)

\* Number of build_connection calls made so far by all tasks.
TotalConns == Len(Flatten([w \in Threads |-> [c \in 1..tasks[w].conns |-> w]]))

\* C18: connections are never shared: a task calls build_connection at most
\* once, the connection it holds and every connection one of its insert calls
\* is issued on is the one it opened itself, and at no point are there more
\* connections than threads.
C18_ConnectionPerTask ==
    /\ \A w \in Threads :
          /\ tasks[w].conns <= 1
          /\ tasks[w].db \in {0, w}
          /\ tasks[w].db = w => tasks[w].conns = 1
          /\ \A n \in 1..Len(tasks[w].calls) : tasks[w].calls[n].db = w
    /\ \A w \in Threads, v \in Threads :
          (w # v /\ tasks[w].db # 0) => tasks[w].db # tasks[v].db
    /\ TotalConns <= cli.threads

\* Three tasks hold a connection each and are all in an insert.
C18_Witness ==
    /\ cli.threads = 3
    /\ TotalConns = 3
    /\ \A w \in Threads :
          /\ tasks[w].db = w
          /\ tasks[w].state = "Loading"
          /\ Len(tasks[w].calls) >= 1

\* All records carried by the insert calls issued so far, call by call, and
\* those carried by the calls that returned Ok.
AllSent == Flatten([w \in Threads |-> Flatten(tasks[w].sent)])

AllWritten == Flatten([w \in Threads |-> Written(tasks[w])])

NoDuplicates(q) == \A i \in 1..Len(q), j \in 1..Len(q) : i # j => q[i] # q[j]

Elements(q) == {q[i] : i \in 1..Len(q)}

\* C19: for threads >= 1 and chunk_size > 0, in every interleaving: no
\* record is ever carried by more than one insert call, whatever fails; and
\* when no connect and no insert has failed and main has returned, every
\* record of the dataset has been carried by exactly one successful insert.
C19_EachRecordSentOnce ==
    (cli.threads >= 1 /\ cli.chunk_size > 0) =>
        /\ NoDuplicates(AllSent)
        /\ Elements(AllSent) \subseteq Elements(Convert(json_data))
        /\ (Finished /\ \A w \in Threads : tasks[w].cause = "none") =>
              /\ NoDuplicates(AllWritten)
              /\ Elements(AllWritten) = Elements(Convert(json_data))
              /\ Len(AllWritten) = Len(json_data)

\* 5 records, 3 threads, chunks of 2, nothing failed, main has returned.
C19_Witness ==
    /\ Finished
    /\ Len(json_data) = 5
    /\ cli.threads = 3
    /\ cli.chunk_size = 2
    /\ \A w \in Threads : tasks[w].cause = "none"
    /\ Len(AllWritten) = 5

====
